---- MODULE Spec2Model ----
(***************************************************************************)
(* TaskFlow: the /api/tasks and /api/tasks/[id] route handlers over the    *)
(* Task collection, and the /api/extracted route handler over the           *)
(* ExtractedTask collection (Mongoose models), as state machines.           *)
(*                                                                         *)
(* Strings that the code compares or sorts ("YYYY-MM-DD" dates, "HH:MM"    *)
(* due times) are sequences of digits compared lexicographically, as       *)
(* MongoDB compares strings.  All dates of the model lie in one month      *)
(* (2024-01), so a date is the two digits of its day; the common prefix    *)
(* "2024-01-" does not change any comparison.  The empty sequence is the   *)
(* absent (undefined / falsy) value of such a field.                       *)
(***************************************************************************)
EXTENDS Integers, Sequences, FiniteSets, TLC

VARIABLES tasks, nextId, today, req, resp,
          extracted, nextXId, xreq, xresp, trace,
          gets, store0, sweepers,
          idreq,
          authQueue, authInProgress, href, startAuth, authLog,
          clientTasks, toggles, timers, unsent

\* the Task collection and the last exchange with /api/tasks
tvars == <<tasks, nextId, today, req, resp>>

\* the ExtractedTask collection, the last exchange with /api/extracted and
\* what the fallback resolver did during it
xvars == <<extracted, nextXId, xreq, xresp, trace>>

\* the GET /api/tasks requests in flight when their database calls interleave,
\* the store as it was when the first of them arrived, and the requests whose
\* updateMany has modified a document since
svars == <<gets, store0, sweepers>>

\* a request to /api/tasks/[id] on its way through the handler
hvars == <<idreq>>

\* the extracted-tasks page in the browser: its authQueue and authInProgress
\* state, where the browser is, the start_auth requests in flight, and what
\* the last Connect asked for and what has happened to it
qvars == <<authQueue, authInProgress, href, startAuth, authLog>>

\* TodoList in the browser: its tasks state, the PATCHes of toggleComplete in
\* flight, the save timers of updateTask (window.save_<id>), and the field
\* edits no PATCH has carried yet
cvars == <<clientTasks, toggles, timers, unsent>>

\* the state outside the two collections
uvars == <<svars, hvars, qvars, cvars>>

\* ... and outside the part named
notS == <<hvars, qvars, cvars>>
notH == <<svars, qvars, cvars>>
notQ == <<svars, hvars, cvars>>
notC == <<svars, hvars, qvars>>

vars == <<tasks, nextId, today, req, resp, extracted, nextXId, xreq, xresp, trace,
          gets, store0, sweepers, idreq,
          authQueue, authInProgress, href, startAuth, authLog,
          clientTasks, toggles, timers, unsent>>

-----------------------------------------------------------------------------
(* Bounds *)

MaxTasks == 2     \* tasks ever created (ObjectIds 1..MaxTasks)
FirstDay == 9     \* the server's clock starts on 2024-01-09
LastDay == 10     \* and stops advancing on 2024-01-10
MaxExtracted == 2 \* extracted tasks the database ever gives an ObjectId
MaxFlights == 1   \* PATCHes of toggleComplete in flight together
MaxEmails == 3    \* email addresses typed into the Connect input

-----------------------------------------------------------------------------
(* Strings *)

NoDate == <<>>
NoDue == <<>>

\* a < b as strings (code-unit order); the empty string is least
LexLess(a, b) ==
  \E i \in 1..Len(b) :
    /\ i <= Len(a) + 1
    /\ \A j \in 1..(i - 1) : a[j] = b[j]
    /\ \/ i = Len(a) + 1
       \/ a[i] < b[i]

\* "DD" of a local date, zero padded (toLocaleDateString("en-CA"))
FormatDay(n) == <<n \div 10, n % 10>>

\* new Date(s + "T00:00:00"), in days
DayNum(s) == s[1] * 10 + s[2]

Days == {FormatDay(n) : n \in FirstDay..LastDay}

getLocalToday == today

daysBetween(a, b) == DayNum(b) - DayNum(a)

\* getDay() of 2024-01-DD: 2024-01-07 is a Sunday (0)
Weekday(s) == DayNum(s) % 7

-----------------------------------------------------------------------------
(* The Task model *)

NoRepeat == [enabled |-> FALSE, type |-> "", days |-> {}, startDate |-> NoDate]

repeatingAppliesOnDate(repeating, targetDate) ==
  IF ~repeating.enabled THEN FALSE
  ELSE LET start == IF repeating.startDate = NoDate THEN targetDate
                    ELSE repeating.startDate
       IN  CASE repeating.type = "daily" -> TRUE
             [] repeating.type = "everyOther" ->
                  /\ daysBetween(start, targetDate) >= 0
                  /\ daysBetween(start, targetDate) % 2 = 0
             [] repeating.type = "weekly" -> Weekday(targetDate) \in repeating.days
             [] OTHER -> FALSE

NoTask == <<>>      \* null, as a sequence of no task

\* as NewTask, but the task starts as carried over
NewTaskCarried(id, text, description, due, date, repeating) ==
  [_id |-> id, text |-> text, description |-> description, due |-> due,
   date |-> date, completed |-> FALSE, carryOver |-> TRUE,
   repeating |-> repeating]

\* Task.create(...) (TaskSchema: completed and carryOver default to false,
\* repeating to { enabled: false })
NewTask(id, text, description, due, date, repeating) ==
  [_id |-> id, text |-> text, description |-> description, due |-> due,
   date |-> date, completed |-> FALSE, carryOver |-> FALSE,
   repeating |-> repeating]

\* insert x into the due-sorted s, behind the documents that do not sort after it
InsertByDue(s, x) ==
  LET k == Cardinality({i \in 1..Len(s) : ~LexLess(x.due, s[i].due)})
  IN  SubSeq(s, 1, k) \o <<x>> \o SubSeq(s, k + 1, Len(s))

\* .sort({ due: 1 }): ascending by due, a missing due first, ties in natural order
RECURSIVE SortByDue(_)
SortByDue(s) ==
  IF s = <<>> THEN <<>>
  ELSE InsertByDue(SortByDue(SubSeq(s, 1, Len(s) - 1)), s[Len(s)])

\* { date: { $lt: d } }: a string comparison, never matching a missing date
DateLt(date, d) == date # NoDate /\ LexLess(date, d)

\* { date: { $lte: d } }
DateLte(date, d) == date # NoDate /\ (date = d \/ LexLess(date, d))

-----------------------------------------------------------------------------
(* GET /api/tasks *)

\* as SweepFilter, but tasks dated today are selected too ($lte)
SweepFilterThroughToday(t, todayStr) ==
  ~t.completed /\ ~t.carryOver /\ DateLte(t.date, todayStr)

SweepFilter(t, todayStr) ==
  ~t.completed /\ ~t.carryOver /\ DateLt(t.date, todayStr)

\* a sweep that flips the first overdue document only (updateOne)
SweepFirstOnly(store, todayStr) ==
  LET hits == {i \in 1..Len(store) : SweepFilter(store[i], todayStr)}
  IN  [i \in 1..Len(store) |->
         IF i \in hits /\ (\A j \in hits : i <= j)
         THEN [store[i] EXCEPT !.carryOver = TRUE] ELSE store[i]]

\* Task.updateMany({completed: false, carryOver: false, date: {$lt: todayStr}},
\*                 {$set: {carryOver: true}})
Sweep(store, todayStr) ==
  [i \in 1..Len(store) |->
     IF SweepFilter(store[i], todayStr)
     THEN [store[i] EXCEPT !.carryOver = TRUE] ELSE store[i]]

SweepAlways(selectedDate, todayStr) == TRUE

\* the sweep runs only for the "today" view
ShouldSweep(selectedDate, todayStr) == selectedDate = todayStr

TodayFilter(t, selectedDate) ==
  ~t.completed /\ ~t.carryOver /\ t.date = selectedDate

CarryOverFilterSameDay(t, selectedDate) ==
  ~t.completed /\ t.carryOver /\ t.date = selectedDate

CarryOverFilter(t, selectedDate) ==
  ~t.completed /\ t.carryOver /\ DateLte(t.date, selectedDate)

CompletedFilter(t) == t.completed

RepeatingFilterAnyStatus(t) == t.repeating.enabled

RepeatingFilter(t) == t.repeating.enabled /\ ~t.completed

\* as Buckets, but every repeating task that applies is appended to today
BucketsUnmerged(store, selectedDate) ==
  LET todayTasksPlain == SortByDue(SelectSeq(store, LAMBDA t : TodayFilter(t, selectedDate)))
      carryOverTasks == SortByDue(SelectSeq(store, LAMBDA t : CarryOverFilter(t, selectedDate)))
      completedTasks == SortByDue(SelectSeq(store, CompletedFilter))
      candidateRepeating == SortByDue(SelectSeq(store, RepeatingFilter))
      repeatingForDate ==
        SelectSeq(candidateRepeating,
                  LAMBDA t : repeatingAppliesOnDate(t.repeating, selectedDate))
  IN  [today |-> todayTasksPlain \o repeatingForDate, carryOver |-> carryOverTasks,
       completed |-> completedTasks]

\* the response body of a successful GET, read from store; Task.find is
\* SelectSeq, the matching documents in natural order
Buckets(store, selectedDate) ==
  LET todayTasksPlain == SortByDue(SelectSeq(store, LAMBDA t : TodayFilter(t, selectedDate)))
      carryOverTasks == SortByDue(SelectSeq(store, LAMBDA t : CarryOverFilter(t, selectedDate)))
      completedTasks == SortByDue(SelectSeq(store, CompletedFilter))
      candidateRepeating == SortByDue(SelectSeq(store, RepeatingFilter))
      repeatingForDate ==
        SelectSeq(candidateRepeating,
                  LAMBDA t : repeatingAppliesOnDate(t.repeating, selectedDate))
      existingIds == {todayTasksPlain[i]._id : i \in 1..Len(todayTasksPlain)}
      repeatingToAdd == SelectSeq(repeatingForDate, LAMBDA t : t._id \notin existingIds)
      finalToday == todayTasksPlain \o repeatingToAdd
  IN  [today |-> finalToday, carryOver |-> carryOverTasks, completed |-> completedTasks]

-----------------------------------------------------------------------------
(* Requests and responses *)

\* a JSON request body: has names the fields that are present
NoBody ==
  [has |-> {}, text |-> "", description |-> "", due |-> NoDue, date |-> NoDate,
   completed |-> FALSE, carryOver |-> FALSE, repeating |-> NoRepeat]

\* the last request handled: its route, method and parameters, and for GET
\* /api/tasks the handler's selectedDate and todayStr
NoReq ==
  [route |-> "", method |-> "", date |-> NoDate, selectedDate |-> NoDate,
   todayStr |-> NoDate, id |-> 0]

\* the last response: its status and the members of its JSON body
NoResp ==
  [status |-> 0, today |-> <<>>, carryOver |-> <<>>, completed |-> <<>>,
   task |-> NoTask, message |-> "", id |-> 0]

Status(code) == [NoResp EXCEPT !.status = code]

\* a string that does not cast to an ObjectId (a client "temp-..." id)
MalformedId == 0

\* well-formed ObjectIds, stored or not
IdInputs == 1..MaxTasks

DueEarly == <<0, 8, 10, 0, 0>>    \* "08:00" (10 stands for the colon, above the digits)
DueLate == <<1, 0, 10, 0, 0>>     \* "10:00"

Daily == [enabled |-> TRUE, type |-> "daily", days |-> {}, startDate |-> NoDate]

\* req.query.date: a date string, or NoDate when the parameter is missing
DateParams == Days \cup {NoDate}

\* a complete body of POST /api/tasks
PostBody(text, due, date, repeating, flags) ==
  [NoBody EXCEPT !.has = {"text", "date", "due", "repeating"} \cup flags,
                 !.text = text, !.date = date, !.due = due, !.repeating = repeating,
                 !.completed = ("completed" \in flags),
                 !.carryOver = ("carryOver" \in flags)]

\* bodies of POST /api/tasks: plain tasks, a daily task (due early, dated the
\* first day), a body that also carries completed and carryOver, one without
\* text, one without date
PostBodies ==
  { PostBody("a", due, d, NoRepeat, {}) : due \in {DueEarly, DueLate}, d \in Days }
  \cup { PostBody("a", DueEarly, FormatDay(FirstDay), Daily, {}) }
  \cup { PostBody("a", DueLate, d, NoRepeat, {"completed", "carryOver"}) : d \in Days }
  \cup { [NoBody EXCEPT !.has = {"date"}, !.date = FormatDay(FirstDay)] }
  \cup { [NoBody EXCEPT !.has = {"text"}, !.text = "a"] }

\* bodies of PATCH /api/tasks/:id as the clients send them on the day d:
\* the completion toggles, "move to today" with and without the date, the
\* "Today" button, the carry-over flag, and the field edits
PatchBodies(d) ==
  { [NoBody EXCEPT !.has = {"completed"}, !.completed = c] : c \in BOOLEAN }
  \cup { [NoBody EXCEPT !.has = {"carryOver"}, !.carryOver = c] : c \in BOOLEAN }
  \cup { [NoBody EXCEPT !.has = {"date"}, !.date = d],
         [NoBody EXCEPT !.has = {"carryOver", "date"}, !.date = d],
         [NoBody EXCEPT !.has = {"text"}, !.text = "b"],
         [NoBody EXCEPT !.has = {"description"}, !.description = "d"],
         [NoBody EXCEPT !.has = {"due"}, !.due = DueLate] }

-----------------------------------------------------------------------------
(* Extracted tasks: strings                                                *)
(*                                                                         *)
(* The ids, account emails, ISO timestamps and titles of the extracted     *)
(* task routes are sequences of one-character strings, so that the regular *)
(* expressions of the fallback resolver are computed character by          *)
(* character.  The empty sequence is the absent (null / undefined / "")    *)
(* value.                                                                  *)

NoStr == <<>>

Lowers ==
  <<"a", "b", "c", "d", "e", "f", "g", "h", "i", "j", "k", "l", "m",
    "n", "o", "p", "q", "r", "s", "t", "u", "v", "w", "x", "y", "z">>

Uppers ==
  <<"A", "B", "C", "D", "E", "F", "G", "H", "I", "J", "K", "L", "M",
    "N", "O", "P", "Q", "R", "S", "T", "U", "V", "W", "X", "Y", "Z">>

DigitChars == <<"0", "1", "2", "3", "4", "5", "6", "7", "8", "9">>

Range(s) == {s[i] : i \in 1..Len(s)}

DigitSet == Range(DigitChars)

WordSet == Range(DigitChars) \cup Range(Lowers) \cup Range(Uppers) \cup {"_"}

\* \d
IsDigit(c) == c \in DigitSet

\* \w
IsWord(c) == c \in WordSet

\* the "i" option of the title regex
ToLower(c) ==
  IF \E i \in 1..Len(Uppers) : Uppers[i] = c
  THEN Lowers[CHOOSE i \in 1..Len(Uppers) : Uppers[i] = c]
  ELSE c

\* mongoose.Types.ObjectId.isValid on a string: 24 hexadecimal characters
IsValidObjectId(s) ==
  /\ Len(s) = 24
  /\ \A i \in 1..Len(s) :
       IsDigit(s[i]) \/ ToLower(s[i]) \in {"a", "b", "c", "d", "e", "f"}

\* [\w.+-] and [\w.-], the character classes of the email regex
LocalChar(c) == IsWord(c) \/ c \in {".", "+", "-"}

DomainChar(c) == IsWord(c) \/ c \in {".", "-"}

\* where the greedy [\w.+-]+ that ends just before position k starts
LocalRunStart(s, k) ==
  CHOOSE i \in 1..k :
    /\ \A j \in i..(k - 1) : LocalChar(s[j])
    /\ i = 1 \/ ~LocalChar(s[i - 1])

\* where the greedy [\w.-]+ that starts just after position k ends
DomainRunEnd(s, k) ==
  CHOOSE m \in k..Len(s) :
    /\ \A j \in (k + 1)..m : DomainChar(s[j])
    /\ m = Len(s) \/ ~DomainChar(s[m + 1])

\* where the greedy \w+ that starts just after position p ends
WordRunEnd(s, p) ==
  CHOOSE e \in p..Len(s) :
    /\ \A j \in (p + 1)..e : IsWord(s[j])
    /\ e = Len(s) \/ ~IsWord(s[e + 1])

\* the dots after the "@" at k that \.\w+ can match once [\w.-]+ gives back
EmailDots(s, k) ==
  {p \in (k + 2)..DomainRunEnd(s, k) : s[p] = "." /\ p < Len(s) /\ IsWord(s[p + 1])}

\* an "@" at which /[\w.+-]+@[\w.-]+\.\w+/ matches
EmailAt(s, k) ==
  /\ s[k] = "@"
  /\ k > 1 /\ LocalChar(s[k - 1])
  /\ EmailDots(s, k) # {}

Smallest(S) == CHOOSE x \in S : \A y \in S : x <= y

Largest(S) == CHOOSE x \in S : \A y \in S : y <= x

\* candidate.match(/[\w.+-]+@[\w.-]+\.\w+/): the leftmost match, each
\* quantifier as long as backtracking allows; NoStr when there is none
emailMatch(s) ==
  LET ats == {k \in 1..Len(s) : EmailAt(s, k)}
  IN  IF ats = {} THEN NoStr
      ELSE LET k == Smallest(ats)
               p == Largest(EmailDots(s, k))
           IN  SubSeq(s, LocalRunStart(s, k), WordRunEnd(s, p))

IsoShape ==
  <<"d", "d", "d", "d", "-", "d", "d", "-", "d", "d", "T",
    "d", "d", ":", "d", "d", ":", "d", "d">>

\* \d{4}-\d{2}-\d{2}T\d{2}:\d{2}:\d{2} matches at position i
IsoAt(s, i) ==
  /\ i + Len(IsoShape) - 1 <= Len(s)
  /\ \A j \in 1..Len(IsoShape) :
       IF IsoShape[j] = "d" THEN IsDigit(s[i + j - 1])
       ELSE s[i + j - 1] = IsoShape[j]

\* where the optional (?:\.\d+) after the seconds at position e ends
FractionEnd(s, e) ==
  IF e + 2 <= Len(s) /\ s[e + 1] = "." /\ IsDigit(s[e + 2])
  THEN CHOOSE f \in (e + 2)..Len(s) :
         /\ \A j \in (e + 2)..f : IsDigit(s[j])
         /\ f = Len(s) \/ ~IsDigit(s[f + 1])
  ELSE e

\* candidate.match(/\d{4}-\d{2}-\d{2}T\d{2}:\d{2}:\d{2}(?:\.\d+)?/)
isoTsMatch(s) ==
  LET starts == {i \in 1..Len(s) : IsoAt(s, i)}
  IN  IF starts = {} THEN NoStr
      ELSE LET i == Smallest(starts)
           IN  SubSeq(s, i, FractionEnd(s, i + Len(IsoShape) - 1))

\* String.prototype.replace with a string pattern: the first occurrence
ReplaceFirst(s, sub, rep) ==
  LET occ == {i \in 1..(Len(s) - Len(sub) + 1) : SubSeq(s, i, i + Len(sub) - 1) = sub}
  IN  IF occ = {} THEN s
      ELSE LET i == Smallest(occ)
           IN  SubSeq(s, 1, i - 1) \o rep \o SubSeq(s, i + Len(sub), Len(s))

IsDash(c) == c \in {"-", "_"}

\* replace(/[-_]+/g, " ")
RECURSIVE CollapseDashes(_)
CollapseDashes(s) ==
  IF s = <<>> THEN <<>>
  ELSE IF IsDash(Head(s))
       THEN IF Len(s) > 1 /\ IsDash(s[2]) THEN CollapseDashes(Tail(s))
            ELSE <<" ">> \o CollapseDashes(Tail(s))
       ELSE <<Head(s)>> \o CollapseDashes(Tail(s))

\* String.prototype.trim
Trim(s) ==
  LET inked == {i \in 1..Len(s) : s[i] # " "}
  IN  IF inked = {} THEN <<>> ELSE SubSeq(s, Smallest(inked), Largest(inked))

\* the title the resolver searches for (strategy 6)
titleCandidate(candidate, email, ts) ==
  LET s1 == IF email # NoStr THEN ReplaceFirst(candidate, email, <<" ">>) ELSE candidate
      s2 == IF ts # NoStr THEN ReplaceFirst(s1, ts, <<" ">>) ELSE s1
  IN  Trim(CollapseDashes(s2))

\* { title: { $regex: escapeRegex(t), $options: "i" } }: the escaped pattern
\* matches the text t itself, anywhere in the title, whatever the case
TitleMatches(title, t) ==
  \E i \in 1..(Len(title) - Len(t) + 1) :
    \A j \in 1..Len(t) : ToLower(title[i + j - 1]) = ToLower(t[j])

-----------------------------------------------------------------------------
(* Extracted tasks: records and requests *)

AcctA == <<"a", "@", "x", ".", "c">>

AcctB == <<"b", "@", "x", ".", "c">>

\* "2024-01-01T10:00:00"
Ts1 ==
  <<"2", "0", "2", "4", "-", "0", "1", "-", "0", "1", "T",
    "1", "0", ":", "0", "0", ":", "0", "0">>

TitleCall == <<"C", "a", "l", "l">>

TitlePay == <<"P", "a", "y">>

\* the schema's default source account
AllAccounts == <<"a", "l", "l", "_", "a", "c", "c", "o", "u", "n", "t", "s">>

\* the title ingest gives a task that has none
NoTitleText == <<"(", "n", "o", " ", "t", "i", "t", "l", "e", ")">>

\* the n-th ObjectId the database generates
Oid(n) == [i \in 1..24 |-> IF i = 24 THEN DigitChars[n + 1] ELSE "0"]

\* an ObjectId chosen by the producer of an ingested task
ForeignOid == [i \in 1..24 |-> "f"]

NoExtracted == <<>>     \* null, as a sequence of no record

ExtractedDoc(id, title, account, ts, added) ==
  [_id |-> id, title |-> title, _source_account |-> account,
   source_email_ts |-> ts, addedToCalendar |-> added]

\* a key "<account><sep><timestamp>"
ComposedId(account, sep, ts) == account \o sep \o ts

\* the key the task list composes for a task without _id
ClientKey(account, ts, title) == account \o <<"-">> \o ts \o <<"-">> \o title

\* the ids sent with PATCH and DELETE
IdCandidates ==
  {Oid(n) : n \in 1..MaxExtracted}
    \cup {ComposedId(AcctA, <<"_">>, Ts1),
          ClientKey(AcctA, Ts1, TitleCall),
          <<"c", "a", "l", "l">>,
          <<"z", "z", "z">>,
          AcctB}

\* ... and the absent id
IdInputsX == IdCandidates \cup {NoStr}

\* the strategies of the fallback resolver, by the reason each reports
Strategies ==
  <<"by_id_objectid", "by_id_literal", "by_account_and_ts", "by_ts",
    "by_account", "by_title">>

\* the database calls that reject during one PATCH or DELETE: the two fast
\* paths ("fast_objectid", "fast_literal"), the resolver's queries, and the
\* write that follows the resolver ("final")
FailSets ==
  {{}, {"fast_objectid"}, {"fast_objectid", "fast_literal"},
   {"fast_objectid", "fast_literal", "by_id_objectid"},
   {"by_account_and_ts"}, {"by_ts"}, {"by_account"}, {"by_title"}, {"final"}}

\* ... for the id sent: a call can only reject in a request that issues it
FailSetsFor(id) ==
  IF IsValidObjectId(id)
  THEN {fails \in FailSets : fails \cap {"by_account_and_ts", "by_ts", "by_account", "by_title"} = {}}
  ELSE {fails \in FailSets : "fast_objectid" \notin fails}

NoXReq == [method |-> "", id |-> NoStr, action |-> ""]

NoXResp == [status |-> 0, id |-> NoStr, fallback |-> "", inserted |-> 0]

XStatus(code) == [NoXResp EXCEPT !.status = code]

NoTrace == [outcome |-> "", reason |-> "", issued |-> <<>>, task |-> NoExtracted]

HasX(store, id) == \E i \in 1..Len(store) : store[i]._id = id

IndexOfX(store, id) == CHOOSE i \in 1..Len(store) : store[i]._id = id

-----------------------------------------------------------------------------
(* Extracted tasks: the fallback resolver *)

\* what the resolver reads off the candidate
ParseCandidate(candidate) ==
  LET email == emailMatch(candidate)
      ts == isoTsMatch(candidate)
  IN  [id |-> candidate, valid |-> IsValidObjectId(candidate), email |-> email,
       ts |-> ts, title |-> titleCandidate(candidate, email, ts)]

\* the same, worked out once for the candidates of IdCandidates
ParsedCandidates == [candidate \in IdCandidates |-> ParseCandidate(candidate)]

Parsed(candidate) ==
  IF candidate \in IdCandidates THEN ParsedCandidates[candidate]
  ELSE ParseCandidate(candidate)

\* as Applies, but the title query is issued however short the title is
AppliesAnyTitle(k, c) ==
  CASE k = 1 -> c.valid
    [] k = 2 -> TRUE
    [] k = 3 -> c.email # NoStr /\ c.ts # NoStr
    [] k = 4 -> c.ts # NoStr
    [] k = 5 -> c.email # NoStr
    [] k = 6 -> TRUE

\* the condition under which strategy k issues its query
Applies(k, c) ==
  CASE k = 1 -> c.valid
    [] k = 2 -> TRUE
    [] k = 3 -> c.email # NoStr /\ c.ts # NoStr
    [] k = 4 -> c.ts # NoStr
    [] k = 5 -> c.email # NoStr
    [] k = 6 -> Len(c.title) >= 3

\* the filter of strategy k, on record r
StrategyMatch(k, r, c) ==
  CASE k = 1 -> r._id = c.id
    [] k = 2 -> r._id = c.id
    [] k = 3 -> r._source_account = c.email /\ r.source_email_ts = c.ts
    [] k = 4 -> r.source_email_ts = c.ts
    [] k = 5 -> r._source_account = c.email
    [] k = 6 -> TitleMatches(r.title, c.title)

\* the query of strategy k rejects: the database call fails, or the literal
\* _id filter cannot be cast to an ObjectId
Throws(k, c, fails) ==
  \/ Strategies[k] \in fails
  \/ k = 2 /\ ~c.valid

\* the strategies whose query sits in a try / catch
Catches(k) == k \in {1, 2}

NullResult(issued) ==
  [outcome |-> "null", reason |-> "", issued |-> issued, task |-> NoExtracted]

RECURSIVE ResolveFrom(_, _, _, _, _)
ResolveFrom(k, store, c, fails, issued) ==
  IF k > Len(Strategies) THEN NullResult(issued)
  ELSE IF ~Applies(k, c)
       THEN ResolveFrom(k + 1, store, c, fails, issued)
  ELSE LET now == Append(issued, Strategies[k])
           hits == {i \in 1..Len(store) : StrategyMatch(k, store[i], c)}
       IN  IF Throws(k, c, fails)
           THEN IF Catches(k)
                THEN ResolveFrom(k + 1, store, c, fails, now)
                ELSE [outcome |-> "throw", reason |-> "", issued |-> now,
                      task |-> NoExtracted]
           ELSE IF hits # {}
                THEN [outcome |-> "match", reason |-> Strategies[k], issued |-> now,
                      task |-> <<store[Smallest(hits)]>>]
                ELSE ResolveFrom(k + 1, store, c, fails, now)

\* findTaskByIdOrFallback: what it returns (or that it throws), and the
\* queries it issued on the way
findTaskByIdOrFallback(store, candidate, fails) ==
  IF candidate = NoStr THEN NullResult(<<>>)
  ELSE ResolveFrom(1, store, Parsed(candidate), fails, <<>>)

-----------------------------------------------------------------------------
(* A GET /api/tasks in flight *)

\* the components of the page that fetch /api/tasks when they mount, each
\* with a request of its own
Fetchers == {"TodoList", "Calendar"}

FindNames == {"today", "carryOver", "completed", "repeating"}

\* a GET /api/tasks between its await points: where it stands, its date
\* parameter, selectedDate and todayStr, the position of its updateMany in the
\* collection, and the results of the finds that have resolved
NoGet ==
  [pc |-> "idle", date |-> NoDate, selectedDate |-> NoDate, todayStr |-> NoDate,
   cursor |-> 0, have |-> {},
   today |-> <<>>, carryOver |-> <<>>, completed |-> <<>>, repeating |-> <<>>]

\* a request to /api/tasks/[id]: where the handler stands with it, its
\* method, id and the completed member of its body, and the responses sent
NoIdReq ==
  [pc |-> "idle", method |-> "", id |-> 0, completed |-> FALSE, answers |-> 0]

-----------------------------------------------------------------------------
(* The extracted-tasks page and the OAuth round trip *)

NoEmail == ""       \* null

\* useState<string[]>([]): the queue of a page that has just mounted
MountedQueue == <<>>

\* the browser shows the application
AtApp == [at |-> "app", auth |-> "", email |-> NoEmail]

\* what the last Connect was given, the emails start_auth has been requested
\* for since, in order, and whether an authorisation has failed since
NoAuthLog == [connected |-> <<>>, requested |-> <<>>, failed |-> FALSE]

-----------------------------------------------------------------------------
(* TodoList *)

NoSave == <<>>      \* no timer is set

-----------------------------------------------------------------------------
(* State *)

Init ==
  /\ tasks = <<>>
  /\ nextId = 1
  /\ today = FormatDay(FirstDay)
  /\ req = NoReq
  /\ resp = NoResp
  /\ extracted = <<>>
  /\ nextXId = 1
  /\ xreq = NoXReq
  /\ xresp = NoXResp
  /\ trace = NoTrace
  /\ gets = [g \in Fetchers |-> NoGet]
  /\ store0 = <<>>
  /\ sweepers = {}
  /\ idreq = NoIdReq
  /\ authQueue = MountedQueue
  /\ authInProgress = NoEmail
  /\ href = AtApp
  /\ startAuth = {}
  /\ authLog = NoAuthLog
  /\ clientTasks = <<>>
  /\ toggles = <<>>
  /\ timers = [id \in IdInputs |-> NoSave]
  /\ unsent = {}

HasId(store, id) == \E i \in 1..Len(store) : store[i]._id = id

IndexOf(store, id) == CHOOSE i \in 1..Len(store) : store[i]._id = id

GetReq(param, selectedDate, todayStr) ==
  [NoReq EXCEPT !.route = "/api/tasks", !.method = "GET", !.date = param,
                !.selectedDate = selectedDate, !.todayStr = todayStr]

\* as selectedDateOf, but a request without a date selects the first day
selectedDateFirst(param) == IF param # NoDate THEN param ELSE FormatDay(FirstDay)

\* the date a GET selects: the query's date, or today when it has none
selectedDateOf(param) == IF param # NoDate THEN param ELSE getLocalToday

\* what a GET /api/tasks does to the store and answers, from the current state
GetOutcome(param) ==
  LET selectedDate == selectedDateOf(param)
      todayStr == getLocalToday
      swept == IF ShouldSweep(selectedDate, todayStr) THEN Sweep(tasks, todayStr)
               ELSE tasks
      b == Buckets(swept, selectedDate)
  IN  [selectedDate |-> selectedDate, todayStr |-> todayStr, tasks |-> swept,
       today |-> b.today, carryOver |-> b.carryOver, completed |-> b.completed]

\* GET /api/tasks: the sweep, the four finds and the merge all succeed
GetTasks(param) ==
  LET o == GetOutcome(param)
  IN  /\ tasks' = o.tasks
      /\ req' = GetReq(param, o.selectedDate, o.todayStr)
      /\ resp' = [Status(200) EXCEPT !.today = o.today, !.carryOver = o.carryOver,
                                     !.completed = o.completed]
      /\ UNCHANGED <<nextId, today, xvars, uvars>>

\* GET /api/tasks when a database call rejects: the catch block answers 500;
\* a failure of the finds comes after the sweep has been written
GetTasksError(param, stage) ==
  LET selectedDate == IF param # NoDate THEN param ELSE getLocalToday
      todayStr == getLocalToday
  IN  /\ stage = "updateMany" => ShouldSweep(selectedDate, todayStr)
      /\ tasks' = IF stage = "find" /\ ShouldSweep(selectedDate, todayStr)
                  THEN Sweep(tasks, todayStr) ELSE tasks
      /\ req' = GetReq(param, selectedDate, todayStr)
      /\ resp' = Status(500)
      /\ UNCHANGED <<nextId, today, xvars, uvars>>

-----------------------------------------------------------------------------
(* POST /api/tasks *)

PostReq ==
  [NoReq EXCEPT !.route = "/api/tasks", !.method = "POST"]

\* as PostValid, but the date is not required
PostValidTextOnly(body) == body.text # ""

PostValid(body) == body.text # "" /\ body.date # NoDate

\* POST /api/tasks with a body lacking text or date
PostTaskInvalid(body) ==
  /\ ~PostValid(body)
  /\ req' = PostReq
  /\ resp' = Status(400)
  /\ UNCHANGED <<tasks, nextId, today, xvars, uvars>>

\* POST /api/tasks creating a task
PostTask(body) ==
  /\ PostValid(body)
  /\ nextId <= MaxTasks
  /\ LET task == NewTask(nextId, body.text, body.description, body.due, body.date,
                         body.repeating)
     IN  /\ tasks' = Append(tasks, task)
         /\ resp' = [Status(201) EXCEPT !.task = <<task>>]
  /\ nextId' = nextId + 1
  /\ req' = PostReq
  /\ UNCHANGED <<today, xvars, uvars>>

\* POST /api/tasks when Task.create rejects
PostTaskError(body) ==
  /\ PostValid(body)
  /\ req' = PostReq
  /\ resp' = Status(500)
  /\ UNCHANGED <<tasks, nextId, today, xvars, uvars>>

\* any other method on /api/tasks
OtherMethod ==
  /\ req' = [NoReq EXCEPT !.route = "/api/tasks", !.method = "PUT"]
  /\ resp' = Status(405)
  /\ UNCHANGED <<tasks, nextId, today, xvars, uvars>>

-----------------------------------------------------------------------------
(* /api/tasks/[id] *)

IdReq(method, id) ==
  [NoReq EXCEPT !.route = "/api/tasks/[id]", !.method = method, !.id = id]

\* the update document of PATCH, applied to t
ApplyUpdate(t, body) ==
  [t EXCEPT
     !.completed = IF "completed" \in body.has THEN body.completed ELSE @,
     !.carryOver = IF "carryOver" \in body.has THEN body.carryOver ELSE @,
     !.date = IF "carryOver" \in body.has /\ body.carryOver = FALSE
                 /\ body.date # NoDate
              THEN body.date ELSE @]

\* PATCH /api/tasks/:id with an id that does not cast to an ObjectId:
\* findByIdAndUpdate throws a CastError, which nothing catches
PatchTaskCastError(body) ==
  /\ req' = IdReq("PATCH", MalformedId)
  /\ resp' = Status(500)
  /\ UNCHANGED <<tasks, nextId, today, xvars, uvars>>

\* PATCH /api/tasks/:id (findByIdAndUpdate answers null for an unknown id)
PatchTask(id, body) ==
  /\ req' = IdReq("PATCH", id)
  /\ IF HasId(tasks, id)
     THEN LET i == IndexOf(tasks, id)
              updated == ApplyUpdate(tasks[i], body)
          IN  /\ tasks' = [tasks EXCEPT ![i] = updated]
              /\ resp' = [Status(200) EXCEPT !.task = <<updated>>]
     ELSE /\ resp' = [Status(200) EXCEPT !.task = NoTask]
          /\ tasks' = tasks
  /\ UNCHANGED <<nextId, today, xvars, uvars>>

\* DELETE /api/tasks/:id with an id that does not cast to an ObjectId
DeleteTaskCastError ==
  /\ req' = IdReq("DELETE", MalformedId)
  /\ resp' = Status(500)
  /\ UNCHANGED <<tasks, nextId, today, xvars, uvars>>

\* DELETE /api/tasks/:id (findByIdAndDelete answers null for an unknown id)
DeleteTask(id) ==
  /\ req' = IdReq("DELETE", id)
  /\ tasks' = SelectSeq(tasks, LAMBDA t : t._id # id)
  /\ resp' = [Status(200) EXCEPT !.message = "Task deleted"]
  /\ UNCHANGED <<nextId, today, xvars, uvars>>

-----------------------------------------------------------------------------

\* midnight passes on the server
Tick ==
  /\ DayNum(today) < LastDay
  /\ today' = FormatDay(DayNum(today) + 1)
  /\ UNCHANGED <<tasks, nextId, req, resp, xvars, uvars>>

Next ==
  \/ \E param \in DateParams : GetTasks(param)
  \/ \E stage \in {"updateMany", "find"} : GetTasksError(NoDate, stage)
  \/ \E body \in PostBodies : PostTaskInvalid(body)
  \/ \E body \in PostBodies : PostTask(body)
  \/ PostTaskError(PostBody("a", DueLate, today, NoRepeat, {}))
  \/ OtherMethod
  \/ \E id \in IdInputs, body \in PatchBodies(today) : PatchTask(id, body)
  \/ PatchTaskCastError([NoBody EXCEPT !.has = {"completed"}, !.completed = TRUE])
  \/ \E id \in IdInputs : DeleteTask(id)
  \/ DeleteTaskCastError
  \/ Tick

Spec == Init /\ [][Next]_vars

-----------------------------------------------------------------------------
(* /api/extracted: POST *)

PostExtractedBody(title, account, ts) ==
  [title |-> title, _source_account |-> account, source_email_ts |-> ts]

PostExtractedBodies ==
  {PostExtractedBody(TitleCall, AcctA, Ts1),
   PostExtractedBody(TitleCall, AcctB, Ts1),
   PostExtractedBody(TitlePay, NoStr, NoStr),
   PostExtractedBody(NoStr, AcctA, Ts1)}

\* the bodies that carry the source account and timestamp of an email
KeyedBodies == {body \in PostExtractedBodies : body.source_email_ts # NoStr}

XReq(method, id, action) == [method |-> method, id |-> id, action |-> action]

\* POST /api/extracted without a title
PostExtractedInvalid(body) ==
  /\ body.title = NoStr
  /\ xreq' = XReq("POST", NoStr, "")
  /\ xresp' = XStatus(400)
  /\ trace' = NoTrace
  /\ UNCHANGED <<extracted, nextXId, tvars, uvars>>

\* POST /api/extracted creating one record (500 when the create rejects)
PostExtracted(body, rejects) ==
  /\ body.title # NoStr
  /\ nextXId <= MaxExtracted
  /\ xreq' = XReq("POST", NoStr, "")
  /\ trace' = NoTrace
  /\ IF rejects
     THEN /\ xresp' = XStatus(500)
          /\ UNCHANGED <<extracted, nextXId>>
     ELSE LET account == IF body._source_account # NoStr THEN body._source_account
                         ELSE AllAccounts
              doc == ExtractedDoc(Oid(nextXId), body.title, account,
                                  body.source_email_ts, FALSE)
          IN  /\ extracted' = Append(extracted, doc)
              /\ nextXId' = nextXId + 1
              /\ xresp' = [XStatus(201) EXCEPT !.id = doc._id]
  /\ UNCHANGED <<tvars, uvars>>

-----------------------------------------------------------------------------
(* /api/extracted: POST with action=ingest *)

IngestItem(title, own, account, ts, id, added) ==
  [title |-> title, _source_account |-> own, account |-> account,
   source_email_ts |-> ts, _id |-> id, addedToCalendar |-> added]

TasksBody(items) ==
  [hasTasks |-> TRUE, tasks |-> items, hasAccounts |-> FALSE, accounts |-> <<>>]

AccountsBody(mapping) ==
  [hasTasks |-> FALSE, tasks |-> <<>>, hasAccounts |-> TRUE, accounts |-> mapping]

IngestBodies ==
  {TasksBody(<<IngestItem(TitleCall, AcctA, NoStr, Ts1, NoStr, FALSE)>>),
   TasksBody(<<IngestItem(TitlePay, NoStr, AcctA, Ts1, NoStr, FALSE),
               IngestItem(TitleCall, AcctB, NoStr, Ts1, NoStr, FALSE)>>),
   TasksBody(<<IngestItem(NoStr, NoStr, NoStr, NoStr, ForeignOid, FALSE)>>),
   AccountsBody(<<[email |-> AcctA,
                   tasks |-> <<IngestItem(TitleCall, NoStr, NoStr, NoStr, NoStr, FALSE)>>]>>),
   AccountsBody(<<[email |-> AcctA,
                   tasks |-> <<IngestItem(TitlePay, NoStr, NoStr, Ts1, NoStr, FALSE),
                               IngestItem(TitleCall, AcctB, NoStr, Ts1, NoStr, FALSE)>>]>>),
   [hasTasks |-> FALSE, tasks |-> <<>>, hasAccounts |-> FALSE, accounts |-> <<>>]}

\* as OwnOrKey, with the key ignored
OwnOnly(t, email) == t._source_account

\* the source account of task t listed under the key email
OwnOrKey(t, email) == IF t._source_account # NoStr THEN t._source_account ELSE email

\* the tasks of an accounts mapping, each given its key as source account
\* unless it names one
RECURSIVE FlattenAccounts(_)
FlattenAccounts(accounts) ==
  IF accounts = <<>> THEN <<>>
  ELSE LET email == Head(accounts).email
           tarr == Head(accounts).tasks
       IN  [i \in 1..Len(tarr) |->
              [tarr[i] EXCEPT !._source_account = OwnOrKey(tarr[i], email)]]
           \o FlattenAccounts(Tail(accounts))

ingestTasks(body) ==
  IF body.hasTasks THEN body.tasks ELSE FlattenAccounts(body.accounts)

\* the document ingest writes for task t
IngestDoc(t) ==
  [title |-> IF t.title # NoStr THEN t.title ELSE NoTitleText,
   _source_account |-> IF t._source_account # NoStr THEN t._source_account
                       ELSE t.account,
   source_email_ts |-> t.source_email_ts,
   addedToCalendar |-> t.addedToCalendar]

\* as UpsertHits, with a filter that selects nothing
UpsertHitsNone(store, t) == {}

\* the records the upsert filter of task t selects; none when t has no key
UpsertHits(store, t) ==
  LET doc == IngestDoc(t)
  IN  IF doc._source_account # NoStr /\ doc.source_email_ts # NoStr
      THEN {i \in 1..Len(store) :
              /\ store[i]._source_account = doc._source_account
              /\ store[i].source_email_ts = doc.source_email_ts}
      ELSE IF t._id # NoStr
           THEN {i \in 1..Len(store) : store[i]._id = t._id}
           ELSE {}

\* the store after $set: doc on record i
SetDoc(store, i, doc) ==
  [store EXCEPT ![i] = ExtractedDoc(@._id, doc.title, doc._source_account,
                                    doc.source_email_ts, doc.addedToCalendar)]

\* as AfterFailure, with the loop given up
AfterFailureAbort(i, items) == Len(items) + 1

\* the item the loop turns to once the failure of item i is caught
AfterFailure(i, items) == i + 1

\* the upsert loop from item i on; the items of failing reject
RECURSIVE IngestFrom(_, _, _, _, _, _)
IngestFrom(i, items, store, nid, failing, inserted) ==
  IF i > Len(items) THEN [store |-> store, nid |-> nid, inserted |-> inserted]
  ELSE IF i \in failing
       THEN IngestFrom(AfterFailure(i, items), items, store, nid, failing, inserted)
  ELSE LET t == items[i]
           doc == IngestDoc(t)
           hits == UpsertHits(store, t)
           keyed == doc._source_account # NoStr /\ doc.source_email_ts # NoStr
       IN  IF hits # {}
           THEN IngestFrom(i + 1, items, SetDoc(store, Smallest(hits), doc), nid,
                           failing, inserted + 1)
           ELSE IF ~keyed /\ t._id # NoStr
                THEN IngestFrom(i + 1, items,
                                Append(store, ExtractedDoc(t._id, doc.title,
                                   doc._source_account, doc.source_email_ts,
                                   doc.addedToCalendar)),
                                nid, failing, inserted + 1)
                ELSE IngestFrom(i + 1, items,
                                Append(store, ExtractedDoc(Oid(nid), doc.title,
                                   doc._source_account, doc.source_email_ts,
                                   doc.addedToCalendar)),
                                nid + 1, failing, inserted + 1)

\* POST /api/extracted?action=ingest with neither a tasks array nor an
\* accounts mapping
IngestInvalid(body) ==
  /\ ~body.hasTasks /\ ~body.hasAccounts
  /\ xreq' = XReq("POST", NoStr, "ingest")
  /\ xresp' = XStatus(400)
  /\ trace' = NoTrace
  /\ UNCHANGED <<extracted, nextXId, tvars, uvars>>

\* POST /api/extracted?action=ingest
Ingest(body, failing) ==
  /\ body.hasTasks \/ body.hasAccounts
  /\ LET r == IngestFrom(1, ingestTasks(body), extracted, nextXId, failing, 0)
     IN  /\ r.nid <= MaxExtracted + 1
         /\ extracted' = r.store
         /\ nextXId' = r.nid
         /\ xresp' = [XStatus(201) EXCEPT !.inserted = r.inserted]
  /\ xreq' = XReq("POST", NoStr, "ingest")
  /\ trace' = NoTrace
  /\ UNCHANGED <<tvars, uvars>>

-----------------------------------------------------------------------------
(* /api/extracted: PATCH and DELETE *)

\* the fast path that finds the record, "" when neither does: findById... for
\* a valid ObjectId, then the literal _id filter; a rejection of either is
\* caught
FastPath(store, id, fails) ==
  IF IsValidObjectId(id) /\ HasX(store, id)
  THEN IF "fast_objectid" \notin fails THEN "objectid"
       ELSE IF "fast_literal" \notin fails THEN "literal_id"
       ELSE ""
  ELSE ""

SetCalendar(store, id, value) ==
  [store EXCEPT ![IndexOfX(store, id)].addedToCalendar = value]

Without(store, id) == SelectSeq(store, LAMBDA r : r._id # id)

\* PATCH /api/extracted { id, addedToCalendar }; id is NoStr when the body
\* has none
PatchExtracted(id, addedToCalendar, fails) ==
  LET fast == FastPath(extracted, id, fails)
      fallback == findTaskByIdOrFallback(extracted, id, fails)
  IN  /\ xreq' = XReq("PATCH", id, "")
      /\ IF id = NoStr
         THEN /\ extracted' = extracted
              /\ xresp' = XStatus(400)
              /\ trace' = NoTrace
         ELSE IF fast # ""
         THEN /\ extracted' = SetCalendar(extracted, id, addedToCalendar)
              /\ xresp' = [XStatus(200) EXCEPT !.id = id]
              /\ trace' = NoTrace
         ELSE /\ trace' = fallback
              /\ IF fallback.outcome = "match" /\ "final" \notin fails
                 THEN /\ extracted' = SetCalendar(extracted, fallback.task[1]._id,
                                                  addedToCalendar)
                      /\ xresp' = [XStatus(200) EXCEPT !.id = fallback.task[1]._id]
                 ELSE /\ extracted' = extracted
                      /\ xresp' = IF fallback.outcome = "null" THEN XStatus(404)
                                  ELSE XStatus(500)
      /\ UNCHANGED <<nextXId, tvars, uvars>>

\* DELETE /api/extracted?id=...; id is NoStr when the query has none
DeleteExtracted(id, fails) ==
  LET fast == FastPath(extracted, id, fails)
      fallback == findTaskByIdOrFallback(extracted, id, fails)
  IN  /\ xreq' = XReq("DELETE", id, "")
      /\ IF id = NoStr
         THEN /\ extracted' = extracted
              /\ xresp' = XStatus(400)
              /\ trace' = NoTrace
         ELSE IF fast # ""
         THEN /\ extracted' = Without(extracted, id)
              /\ xresp' = [XStatus(200) EXCEPT
                             !.id = id,
                             !.fallback = IF fast = "literal_id" THEN fast ELSE ""]
              /\ trace' = NoTrace
         ELSE /\ trace' = fallback
              /\ IF fallback.outcome = "match" /\ "final" \notin fails
                 THEN /\ extracted' = Without(extracted, fallback.task[1]._id)
                      /\ xresp' = [XStatus(200) EXCEPT
                                     !.id = fallback.task[1]._id,
                                     !.fallback = fallback.reason]
                 ELSE /\ extracted' = extracted
                      /\ xresp' = IF fallback.outcome = "null" THEN XStatus(404)
                                  ELSE XStatus(500)
      /\ UNCHANGED <<nextXId, tvars, uvars>>

NextExtracted ==
  \/ \E body \in PostExtractedBodies : PostExtractedInvalid(body)
  \/ \E body \in KeyedBodies, rejects \in BOOLEAN : PostExtracted(body, rejects)
  \/ \E id \in IdInputsX : \E fails \in FailSetsFor(id) : PatchExtracted(id, TRUE, fails)
  \/ \E id \in IdInputsX : \E fails \in FailSetsFor(id) : DeleteExtracted(id, fails)

SpecExtracted == Init /\ [][NextExtracted]_vars

NextIngest ==
  \/ \E body \in IngestBodies : IngestInvalid(body)
  \/ \E body \in IngestBodies :
       \E failing \in SUBSET (1..Len(ingestTasks(body))) : Ingest(body, failing)
  \/ \E body \in PostExtractedBodies : PostExtracted(body, FALSE)

SpecIngest == Init /\ [][NextIngest]_vars

-----------------------------------------------------------------------------
(* Requests that lack a required field, on both routes *)

\* bodies of POST /api/tasks: a plain task for each day, and the two bodies
\* that lack a field
ValidationBodies == {body \in PostBodies : body.due # DueEarly /\ "completed" \notin body.has}

NextValidation ==
  \/ \E body \in ValidationBodies : PostTaskInvalid(body)
  \/ \E body \in ValidationBodies : PostTask(body)
  \/ \E body \in PostExtractedBodies : PostExtractedInvalid(body)
  \/ \E body \in PostExtractedBodies : PostExtracted(body, FALSE)
  \/ PatchExtracted(NoStr, TRUE, {})
  \/ DeleteExtracted(NoStr, {})

SpecValidation == Init /\ [][NextValidation]_vars

-----------------------------------------------------------------------------
(* Tasks without a date *)

\* POST /api/tasks as the first version of the route handled it: the task is
\* created from text and due alone, so it has no date
PostTaskUndated(body) ==
  /\ body.text # ""
  /\ nextId <= MaxTasks
  /\ LET task == NewTask(nextId, body.text, "", body.due, NoDate, NoRepeat)
     IN  /\ tasks' = Append(tasks, task)
         /\ resp' = [Status(201) EXCEPT !.task = <<task>>]
  /\ nextId' = nextId + 1
  /\ req' = PostReq
  /\ UNCHANGED <<today, xvars, uvars>>

\* the list TodoList keeps after a fetch: the buckets of the response merged,
\* a task without date given today's
ClientTasks(response, todayStr) ==
  LET allTasks == response.today \o response.carryOver \o response.completed
  IN  [i \in 1..Len(allTasks) |->
         [allTasks[i] EXCEPT !.date = IF @ # NoDate THEN @ ELSE todayStr]]

\* TodoList's today list
todayTasks(list, todayStr) ==
  SelectSeq(list, LAMBDA t : ~t.completed /\ (t.date = todayStr \/ t.date = NoDate))

NextLegacy ==
  \/ \E body \in ValidationBodies : PostTaskUndated(body)
  \/ \E body \in ValidationBodies : PostTask(body)
  \/ \E param \in DateParams : GetTasks(param)
  \/ \E id \in IdInputs : \E c \in BOOLEAN :
       PatchTask(id, [NoBody EXCEPT !.has = {"completed"}, !.completed = c])
  \/ Tick

SpecLegacy == Init /\ [][NextLegacy]_vars

-----------------------------------------------------------------------------
(* /api/extracted of the ingesting handler: PATCH and DELETE by _id *)

\* an id that does not cast to an ObjectId
UncastableId == <<"z", "z", "z">>

\* the ids the client sends: the _id of a record it lists, stored or not any
\* more; one that does not cast; none
ByIdInputs == {Oid(n) : n \in 1..MaxExtracted} \cup {UncastableId, NoStr}

\* PATCH /api/extracted { id, addedToCalendar }: findByIdAndUpdate; the
\* CastError of an id that is no ObjectId reaches the outer catch
PatchById(id, addedToCalendar) ==
  /\ xreq' = XReq("PATCH", id, "")
  /\ trace' = NoTrace
  /\ IF id = NoStr
     THEN /\ extracted' = extracted
          /\ xresp' = XStatus(400)
     ELSE IF ~IsValidObjectId(id)
     THEN /\ extracted' = extracted
          /\ xresp' = XStatus(500)
     ELSE IF HasX(extracted, id)
     THEN /\ extracted' = SetCalendar(extracted, id, addedToCalendar)
          /\ xresp' = [XStatus(200) EXCEPT !.id = id]
     ELSE /\ extracted' = extracted
          /\ xresp' = XStatus(404)
  /\ UNCHANGED <<nextXId, tvars, uvars>>

\* DELETE /api/extracted?id=...: findByIdAndDelete, answered 200 whether or
\* not a record went
DeleteById(id) ==
  /\ xreq' = XReq("DELETE", id, "")
  /\ trace' = NoTrace
  /\ IF id = NoStr
     THEN /\ extracted' = extracted
          /\ xresp' = XStatus(400)
     ELSE IF ~IsValidObjectId(id)
     THEN /\ extracted' = extracted
          /\ xresp' = XStatus(500)
     ELSE /\ extracted' = Without(extracted, id)
          /\ xresp' = XStatus(200)
  /\ UNCHANGED <<nextXId, tvars, uvars>>

\* the ingesting handler with the calendar flag in use: emails are ingested
\* again and again while the client marks and deletes the tasks it lists
NextCalendar ==
  \/ \E body \in IngestBodies : Ingest(body, {})
  \/ \E id \in ByIdInputs : PatchById(id, TRUE)
  \/ \E id \in ByIdInputs : DeleteById(id)

SpecCalendar == Init /\ [][NextCalendar]_vars

-----------------------------------------------------------------------------
(* The task list deleting through the key it composes *)

\* tasks extracted from emails: two from one email of one account, and two
\* from an email another account received at the same time
EmailBodies ==
  {PostExtractedBody(title, account, Ts1) :
     title \in {TitleCall, TitlePay}, account \in {AcctA, AcctB}}

\* the id the list gives task t when t carries no _id
composedKey(t) == ClientKey(t._source_account, t.source_email_ts, t.title)

\* deleteTask(id) on the i-th task listed: id is its _id when the listed task
\* carries one, else the composed key
ClientDelete(i, carriesId) ==
  /\ i \in 1..Len(extracted)
  /\ DeleteExtracted(IF carriesId THEN extracted[i]._id ELSE composedKey(extracted[i]),
                     {})

\* addToCalendar(task) on the i-th task listed, which carries its _id
ClientAddToCalendar(i) ==
  /\ i \in 1..Len(extracted)
  /\ PatchExtracted(extracted[i]._id, TRUE, {})

NextClientDelete ==
  \/ \E body \in EmailBodies : PostExtracted(body, FALSE)
  \/ \E i \in 1..MaxExtracted : ClientAddToCalendar(i)
  \/ \E i \in 1..MaxExtracted, carriesId \in BOOLEAN : ClientDelete(i, carriesId)

SpecClientDelete == Init /\ [][NextClientDelete]_vars

-----------------------------------------------------------------------------
(* GET /api/tasks with its awaits interleaved                              *)
(*                                                                         *)
(* The handler awaits updateMany, then the four finds of Promise.all, then *)
(* answers.  MongoDB applies updateMany one document at a time, testing    *)
(* the filter on each document as it reaches it, and serves the four finds *)
(* in any order; the calls of other requests run in between.               *)

Quiet == \A g \in Fetchers : gets[g].pc = "idle"

\* as SweepOne, but $set also moves the document to today
SweepOneMoved(store, i, todayStr) ==
  IF SweepFilter(store[i], todayStr)
  THEN [store EXCEPT ![i].carryOver = TRUE, ![i].date = todayStr] ELSE store

\* updateMany at document i: the filter is tested on the document as it is
\* now, and $set writes carryOver alone
SweepOne(store, i, todayStr) ==
  IF SweepFilter(store[i], todayStr)
  THEN [store EXCEPT ![i].carryOver = TRUE] ELSE store

\* the request of component g arrives: selectedDate and todayStr are computed
\* and the sweep, if it applies, is issued
BeginGet(g, param) ==
  /\ gets[g].pc = "idle"
  /\ LET selectedDate == selectedDateOf(param)
         todayStr == getLocalToday
     IN  gets' = [gets EXCEPT ![g] =
                    [NoGet EXCEPT !.pc = IF ShouldSweep(selectedDate, todayStr)
                                         THEN "updateMany" ELSE "find",
                                  !.date = param, !.selectedDate = selectedDate,
                                  !.todayStr = todayStr, !.cursor = 1]]
  /\ store0' = IF Quiet THEN tasks ELSE store0
  /\ sweepers' = IF Quiet THEN {} ELSE sweepers
  /\ UNCHANGED <<tvars, xvars, notS>>

\* the documents from position c on that match the filter of the sweep
Matching(store, c, todayStr) ==
  {i \in c..Len(store) : SweepFilter(store[i], todayStr)}

\* updateMany reaches its next matching document and updates it
SweepStep(g) ==
  /\ gets[g].pc = "updateMany"
  /\ Matching(tasks, gets[g].cursor, gets[g].todayStr) # {}
  /\ LET i == Smallest(Matching(tasks, gets[g].cursor, gets[g].todayStr))
     IN  /\ tasks' = SweepOne(tasks, i, gets[g].todayStr)
         /\ gets' = [gets EXCEPT ![g].cursor = i + 1]
         /\ sweepers' = IF tasks' # tasks THEN sweepers \cup {g} ELSE sweepers
  /\ UNCHANGED <<nextId, today, req, resp, xvars, store0, notS>>

\* no matching document is left: updateMany resolves and the four finds are
\* issued
SweepDone(g) ==
  /\ gets[g].pc = "updateMany"
  /\ Matching(tasks, gets[g].cursor, gets[g].todayStr) = {}
  /\ gets' = [gets EXCEPT ![g].pc = "find"]
  /\ UNCHANGED <<tvars, xvars, store0, sweepers, notS>>

\* one of the four finds is served
FindResult(q, store, selectedDate) ==
  CASE q = "today" -> SortByDue(SelectSeq(store, LAMBDA t : TodayFilter(t, selectedDate)))
    [] q = "carryOver" ->
         SortByDue(SelectSeq(store, LAMBDA t : CarryOverFilter(t, selectedDate)))
    [] q = "completed" -> SortByDue(SelectSeq(store, CompletedFilter))
    [] q = "repeating" -> SortByDue(SelectSeq(store, RepeatingFilter))

Find(g, q) ==
  /\ gets[g].pc = "find"
  /\ q \notin gets[g].have
  /\ gets' = [gets EXCEPT ![g] =
                 [@ EXCEPT !.have = @ \cup {q},
                           ![q] = FindResult(q, tasks, gets[g].selectedDate)]]
  /\ UNCHANGED <<tvars, xvars, store0, sweepers, notS>>

\* the today list: the plain tasks, then the repeating tasks that apply on
\* the selected date and are not among them
finalToday(todayTasksPlain, candidateRepeating, selectedDate) ==
  LET repeatingForDate ==
        SelectSeq(candidateRepeating,
                  LAMBDA t : repeatingAppliesOnDate(t.repeating, selectedDate))
      existingIds == {todayTasksPlain[i]._id : i \in 1..Len(todayTasksPlain)}
      repeatingToAdd == SelectSeq(repeatingForDate, LAMBDA t : t._id \notin existingIds)
  IN  todayTasksPlain \o repeatingToAdd

\* Promise.all has resolved: the handler merges and answers
Respond(g) ==
  /\ gets[g].pc = "find"
  /\ gets[g].have = FindNames
  /\ req' = GetReq(gets[g].date, gets[g].selectedDate, gets[g].todayStr)
  /\ resp' = [Status(200) EXCEPT
                !.today = finalToday(gets[g].today, gets[g].repeating,
                                     gets[g].selectedDate),
                !.carryOver = gets[g].carryOver,
                !.completed = gets[g].completed]
  /\ gets' = [gets EXCEPT ![g] = NoGet]
  /\ UNCHANGED <<tasks, nextId, today, xvars, store0, sweepers, notS>>

\* the tasks the interleaved requests run over: a plain task and a daily task
SweepBodies ==
  {PostBody("a", DueLate, FormatDay(FirstDay), NoRepeat, {}),
   PostBody("a", DueEarly, FormatDay(FirstDay), Daily, {})}

\* requests for today arrive at any time, without a date as TodoList and
\* Calendar send them; the store is written by nothing else while one of them
\* is in flight
NextSweep ==
  \/ \E g \in Fetchers : BeginGet(g, NoDate)
  \/ \E g \in Fetchers : SweepStep(g)
  \/ \E g \in Fetchers : SweepDone(g)
  \/ \E g \in Fetchers, q \in FindNames : Find(g, q)
  \/ \E g \in Fetchers : Respond(g)
  \/ Quiet /\ \E body \in SweepBodies : PostTask(body)
  \/ Quiet /\ \E id \in IdInputs :
                PatchTask(id, [NoBody EXCEPT !.has = {"completed"}, !.completed = TRUE])
  \/ Quiet /\ Tick

SpecSweep == Init /\ [][NextSweep]_vars

-----------------------------------------------------------------------------
(* /api/tasks/[id], from the arrival of a request to its response          *)
(*                                                                         *)
(* The connection carries one request at a time: the next one arrives when *)
(* the previous one has been answered.  Next.js answers 500 when the       *)
(* handler throws, and sends nothing when the handler returns without      *)
(* having sent a response.                                                 *)

IdMethods == {"DELETE", "PATCH", "GET"}

\* a request arrives; the handler awaits connectDB()
ArriveId(method, id, completed) ==
  /\ idreq.pc \in {"idle", "answered"}
  /\ idreq' = [pc |-> "handling", method |-> method, id |-> id,
               completed |-> completed, answers |-> 0]
  /\ UNCHANGED <<tvars, xvars, notH>>

\* the methods for which the handler reaches its end without a response
Falls(method) == method \notin {"DELETE", "PATCH"}

\* the handler runs on: the DELETE branch, the PATCH branch, or neither
HandleId ==
  /\ idreq.pc = "handling"
  /\ IF Falls(idreq.method)
     THEN /\ idreq' = [idreq EXCEPT !.pc = "returned"]
          /\ UNCHANGED tvars
     ELSE /\ idreq' = [idreq EXCEPT !.pc = "answered", !.answers = @ + 1]
          /\ req' = IdReq(idreq.method, idreq.id)
          /\ UNCHANGED <<nextId, today>>
          /\ IF idreq.id = MalformedId
             THEN tasks' = tasks /\ resp' = Status(500)
             ELSE IF idreq.method = "DELETE"
             THEN /\ tasks' = SelectSeq(tasks, LAMBDA t : t._id # idreq.id)
                  /\ resp' = [Status(200) EXCEPT !.message = "Task deleted"]
             ELSE IF HasId(tasks, idreq.id)
             THEN LET i == IndexOf(tasks, idreq.id)
                      updated ==
                        ApplyUpdate(tasks[i], [NoBody EXCEPT !.has = {"completed"},
                                                             !.completed = idreq.completed])
                  IN  /\ tasks' = [tasks EXCEPT ![i] = updated]
                      /\ resp' = [Status(200) EXCEPT !.task = <<updated>>]
             ELSE tasks' = tasks /\ resp' = [Status(200) EXCEPT !.task = NoTask]
  /\ UNCHANGED <<xvars, notH>>

NextById ==
  \/ \E method \in IdMethods, id \in IdInputs \cup {MalformedId}, completed \in BOOLEAN :
       ArriveId(method, id, completed)
  \/ HandleId
  \/ \E body \in SweepBodies : PostTask(body)

\* the event loop runs the handler on once connectDB() and the database call
\* have settled
SpecById == Init /\ [][NextById]_vars /\ WF_vars(HandleId)

-----------------------------------------------------------------------------
(* Connecting accounts: the authorisation queue of ExtractedTasks           *)

Emails == {"e" \o ToString(n) : n \in 1..MaxEmails}

\* the lists the Connect input yields: emailInput split at the commas
ConnectLists == UNION {[1..n -> Emails] : n \in 1..MaxEmails}

\* ... those that name no address twice
DistinctLists == {l \in ConnectLists : \A i, j \in 1..Len(l) : l[i] = l[j] => i = j}

\* requestAuthFor(email) issuing POST /start_auth
RequestAuth(email) ==
  /\ startAuth' = startAuth \cup {email}
  /\ authLog' = [authLog EXCEPT !.requested = Append(@, email)]

\* onConnectClick: the queue is set and authorisation of the first address
\* is requested
onConnectClick(emails) ==
  /\ href = AtApp
  /\ startAuth = {}
  /\ authQueue' = emails
  /\ startAuth' = {emails[1]}
  /\ authLog' = [connected |-> emails, requested |-> <<emails[1]>>, failed |-> FALSE]
  /\ UNCHANGED <<authInProgress, href, tvars, xvars, notQ>>

\* /start_auth answers: with an auth_url the browser leaves for it, without
\* one requestAuthFor only warns
StartAuthReply(email, hasUrl) ==
  /\ email \in startAuth
  /\ href.at = "app"
  /\ startAuth' = startAuth \ {email}
  /\ IF hasUrl
     THEN /\ authInProgress' = email
          /\ href' = [at |-> "provider", auth |-> "", email |-> email]
          /\ authLog' = authLog
     ELSE /\ authLog' = [authLog EXCEPT !.failed = TRUE]
          /\ UNCHANGED <<authInProgress, href>>
  /\ UNCHANGED <<authQueue, tvars, xvars, notQ>>

\* prev.filter((e) => e !== email)
Remaining(prev, email) == SelectSeq(prev, LAMBDA e : e # email)

\* the browser comes back from the provider, redirected to
\* /?auth=success&email=... or, the authorisation given up, to the plain
\* application: the page loads and mounts with fresh state
ReturnFromProvider(success) ==
  /\ href.at = "provider"
  /\ href' = IF success THEN [at |-> "app", auth |-> "success", email |-> href.email]
             ELSE AtApp
  /\ authQueue' = MountedQueue
  /\ authInProgress' = NoEmail
  /\ authLog' = IF success THEN authLog ELSE [authLog EXCEPT !.failed = TRUE]
  /\ UNCHANGED <<startAuth, tvars, xvars, notQ>>

\* the effect of the mounted page finds auth=success and an email in the URL:
\* it clears the URL, drops the email from the queue and requests
\* authorisation of the first address that remains
CallbackEffect ==
  /\ href.at = "app"
  /\ href.auth = "success"
  /\ href.email # NoEmail
  /\ href' = AtApp
  /\ authInProgress' = NoEmail
  /\ LET remaining == Remaining(authQueue, href.email)
     IN  /\ authQueue' = remaining
         /\ IF remaining # <<>>
            THEN RequestAuth(remaining[1])
            ELSE UNCHANGED <<startAuth, authLog>>
  /\ UNCHANGED <<tvars, xvars, notQ>>

NextAuth ==
  \/ \E emails \in ConnectLists : onConnectClick(emails)
  \/ \E email \in Emails, hasUrl \in BOOLEAN : StartAuthReply(email, hasUrl)
  \/ \E success \in BOOLEAN : ReturnFromProvider(success)
  \/ CallbackEffect

\* /start_auth answers every request, the user who was sent to the provider
\* comes back from it, and React runs the effect of a mounted page
SpecAuth ==
  /\ Init
  /\ [][NextAuth]_vars
  /\ WF_vars(\E email \in Emails, hasUrl \in BOOLEAN : StartAuthReply(email, hasUrl))
  /\ WF_vars(\E success \in BOOLEAN : ReturnFromProvider(success))
  /\ WF_vars(CallbackEffect)

-----------------------------------------------------------------------------
(* TodoList: adding, fetching, toggling and editing tasks                  *)
(*                                                                         *)
(* A request of the component is served when it is sent, except the PATCH  *)
(* of toggleComplete, which stays in flight while the user goes on; a      *)
(* request that fails leaves the server as it was.                         *)

\* a task as addTask keeps it: without date given today's
Normalized(t, todayStr) ==
  [t EXCEPT !.date = IF @ # NoDate THEN @ ELSE todayStr]

\* localISODate(): the browser's clock is the server's
localISODate == today

\* addTask: POST /api/tasks answered 201; the created task goes to the front
addTask ==
  /\ nextId <= MaxTasks
  /\ LET task == NewTask(nextId, "a", "", DueEarly, localISODate, NoRepeat)
     IN  /\ tasks' = Append(tasks, task)
         /\ resp' = [Status(201) EXCEPT !.task = <<task>>]
         /\ clientTasks' = <<Normalized(task, localISODate)>> \o clientTasks
  /\ nextId' = nextId + 1
  /\ req' = PostReq
  /\ UNCHANGED <<today, toggles, timers, unsent, xvars, notC>>

\* fetchTasks: GET /api/tasks answered 200; the buckets merged replace the list
fetchTasks ==
  LET o == GetOutcome(NoDate)
  IN  /\ tasks' = o.tasks
      /\ req' = GetReq(NoDate, o.selectedDate, o.todayStr)
      /\ resp' = [Status(200) EXCEPT !.today = o.today, !.carryOver = o.carryOver,
                                     !.completed = o.completed]
      /\ clientTasks' = ClientTasks(resp', localISODate)
      /\ UNCHANGED <<nextId, today, toggles, timers, unsent, xvars, notC>>

\* prev.map(t => t._id === id ? task : t)
Replace(prev, id, task) ==
  [i \in 1..Len(prev) |-> IF prev[i]._id = id THEN task ELSE prev[i]]

\* toggleComplete(id): the list shows the new value at once and the PATCH
\* leaves; task is the list's entry as the click found it
toggleComplete(i) ==
  /\ i \in 1..Len(clientTasks)
  /\ Len(toggles) < MaxFlights
  /\ LET task == clientTasks[i]
         updatedTask == [task EXCEPT !.completed = ~task.completed]
     IN  /\ clientTasks' = Replace(clientTasks, task._id, updatedTask)
         /\ toggles' = Append(toggles, [id |-> task._id, task |-> task,
                                        completed |-> updatedTask.completed])
  /\ UNCHANGED <<tvars, timers, unsent, xvars, notC>>

\* the server's part of a PATCH that arrives
Patched(store, id, body) ==
  IF HasId(store, id)
  THEN [store EXCEPT ![IndexOf(store, id)] = ApplyUpdate(@, body)]
  ELSE store

PatchedResp(store, id, body) ==
  IF HasId(store, id)
  THEN [Status(200) EXCEPT !.task = <<ApplyUpdate(store[IndexOf(store, id)], body)>>]
  ELSE [Status(200) EXCEPT !.task = NoTask]

\* the list after the revert of a toggle that failed
Reverted(prev, id, task) == Replace(prev, id, task)

\* the PATCH of the k-th toggle in flight is answered 200, or fails (the
\* fetch rejects) and the toggle is reverted
ToggleSettles(k, ok) ==
  /\ k \in 1..Len(toggles)
  /\ toggles' = SubSeq(toggles, 1, k - 1) \o SubSeq(toggles, k + 1, Len(toggles))
  /\ LET f == toggles[k]
         body == [NoBody EXCEPT !.has = {"completed"}, !.completed = f.completed]
     IN  IF ok
         THEN /\ tasks' = Patched(tasks, f.id, body)
              /\ req' = IdReq("PATCH", f.id)
              /\ resp' = PatchedResp(tasks, f.id, body)
              /\ clientTasks' = clientTasks
         ELSE /\ clientTasks' = Reverted(clientTasks, f.id, f.task)
              /\ UNCHANGED <<tasks, req, resp>>
  /\ UNCHANGED <<nextId, today, timers, unsent, xvars, notC>>

\* the fields the rendered inputs edit
EditFields == {"text", "description"}

\* what the user types into the field
EditValue(field) == IF field = "text" THEN "b" ELSE "d"

\* { ...t, [field]: value }
WithField(t, field, value) ==
  IF field = "text" THEN [t EXCEPT !.text = value]
  ELSE [t EXCEPT !.description = value]

\* the key of the save timer: window["save_" + id]
TimerKey(id, field) == id

\* updateTask(id, field, value): the list shows the value at once; the timer
\* of the task is cleared and set anew, to save this edit
updateTask(i, field) ==
  /\ i \in 1..Len(clientTasks)
  /\ LET id == clientTasks[i]._id
         value == EditValue(field)
     IN  /\ clientTasks' = [clientTasks EXCEPT ![i] = WithField(@, field, value)]
         /\ timers' = [timers EXCEPT ![id] =
                         SelectSeq(@, LAMBDA sv :
                                        TimerKey(id, sv.field) # TimerKey(id, field))
                         \o <<[field |-> field, value |-> value]>>]
         /\ unsent' = unsent \cup {<<id, field>>}
  /\ UNCHANGED <<tvars, toggles, xvars, notC>>

\* a save timer of task id fires: PATCH /api/tasks/<id> { [field]: value }
SaveFires(id) ==
  /\ timers[id] # NoSave
  /\ LET sv == Head(timers[id])
         body == IF sv.field = "text"
                 THEN [NoBody EXCEPT !.has = {"text"}, !.text = sv.value]
                 ELSE [NoBody EXCEPT !.has = {"description"}, !.description = sv.value]
     IN  /\ timers' = [timers EXCEPT ![id] = Tail(@)]
         /\ unsent' = unsent \ {<<id, sv.field>>}
         /\ tasks' = Patched(tasks, id, body)
         /\ req' = IdReq("PATCH", id)
         /\ resp' = PatchedResp(tasks, id, body)
  /\ UNCHANGED <<nextId, today, clientTasks, toggles, xvars, notC>>

NextClient ==
  \/ addTask
  \/ fetchTasks
  \/ \E i \in 1..MaxTasks : toggleComplete(i)
  \/ \E k \in 1..MaxFlights, ok \in BOOLEAN : ToggleSettles(k, ok)
  \/ \E i \in 1..MaxTasks, field \in EditFields : updateTask(i, field)
  \/ \E id \in IdInputs : SaveFires(id)

\* a timer that is set fires, and a request in flight settles
SpecClient ==
  /\ Init
  /\ [][NextClient]_vars
  /\ WF_vars(\E id \in IdInputs : SaveFires(id))
  /\ WF_vars(\E k \in 1..MaxFlights, ok \in BOOLEAN : ToggleSettles(k, ok))

-----------------------------------------------------------------------------
(* Reading the last exchange *)

\* the last request was GET /api/tasks and it was answered with the buckets
GotBuckets == req.route = "/api/tasks" /\ req.method = "GET" /\ resp.status = 200

\* ... and it asked for the "today" view
GotTodayBuckets == GotBuckets /\ req.selectedDate = req.todayStr

InBucket(bucket, id) == \E i \in 1..Len(bucket) : bucket[i]._id = id

Listed(bucket, t) == \E i \in 1..Len(bucket) : bucket[i] = t

BucketsHolding(id) ==
  {b \in {"today", "carryOver", "completed"} : InBucket(resp[b], id)}

\* this step handles a request (the clock does not move)
IsRequest == today' = today /\ (req' # req \/ resp' # resp \/ tasks' # tasks)

Overdue(t, todayStr) == ~t.completed /\ DateLt(t.date, todayStr)

-----------------------------------------------------------------------------
(* Claims *)

\* C1: in every response of GET /api/tasks each stored task is in exactly one
\* of the buckets today, carryOver and completed.
C1_ExactlyOneBucket ==
  GotBuckets =>
    \A i \in 1..Len(tasks) : Cardinality(BucketsHolding(tasks[i]._id)) = 1

\* C2: after a GET /api/tasks for today, every stored incomplete task dated
\* before today has carryOver = true in the store and is listed in the
\* carryOver bucket of the response.
C2_OverdueCarried ==
  GotTodayBuckets =>
    \A i \in 1..Len(tasks) :
      Overdue(tasks[i], req.todayStr) =>
        tasks[i].carryOver /\ Listed(resp.carryOver, tasks[i])

\* C2 witness: a today view that lists two overdue tasks as carried over
C2_Witness ==
  /\ GotTodayBuckets
  /\ Len(resp.carryOver) = 2
  /\ \A i \in 1..Len(tasks) : Overdue(tasks[i], req.todayStr)

\* C3: a GET /api/tasks whose date is not today changes no stored task,
\* creates none and deletes none.
C3_BrowsingIsReadOnly ==
  [][ (IsRequest /\ req'.route = "/api/tasks" /\ req'.method = "GET"
         /\ req'.selectedDate # req'.todayStr)
      => tasks' = tasks ]_vars

\* C3 witness: another day was browsed while the store held an overdue task
\* that the sweep would have flagged
C3_Witness ==
  /\ GotBuckets
  /\ req.selectedDate # req.todayStr
  /\ \E i \in 1..Len(tasks) : SweepFilter(tasks[i], req.todayStr)

\* C4: every completed task is listed in the completed bucket of GET
\* /api/tasks and in no other bucket, whatever its date, its carryOver flag
\* and the date selected.
C4_CompletedOnlyInCompleted ==
  GotBuckets =>
    \A i \in 1..Len(tasks) :
      tasks[i].completed =>
        /\ Listed(resp.completed, tasks[i])
        /\ BucketsHolding(tasks[i]._id) = {"completed"}

\* C4 witness: a completed repeating task and a completed carried-over task,
\* both listed as completed
C4_Witness ==
  /\ GotBuckets
  /\ \E i \in 1..Len(tasks) :
       /\ tasks[i].completed /\ tasks[i].repeating.enabled
       /\ repeatingAppliesOnDate(tasks[i].repeating, req.selectedDate)
  /\ \E i \in 1..Len(tasks) :
       tasks[i].completed /\ tasks[i].carryOver /\ ~tasks[i].repeating.enabled
  /\ Len(resp.completed) = 2

\* C5: the sweep is idempotent: a GET /api/tasks for today that directly
\* follows another one leaves the store as it was and gives the same
\* response, and a GET for today with no overdue incomplete task changes
\* nothing.
C5_SweepIdempotent ==
  [][ (IsRequest /\ req'.route = "/api/tasks" /\ req'.method = "GET"
         /\ resp'.status = 200 /\ req'.selectedDate = req'.todayStr)
      => /\ (GotTodayBuckets /\ req.todayStr = today)
              => (tasks' = tasks /\ resp' = resp)
         /\ (\A i \in 1..Len(tasks) : ~Overdue(tasks[i], today))
              => tasks' = tasks ]_vars

\* C5 witness: a today view over a store whose two tasks the sweep has flagged
C5_Witness ==
  /\ GotTodayBuckets
  /\ req.todayStr = today
  /\ Len(tasks) = 2
  /\ \A i \in 1..Len(tasks) :
       Overdue(tasks[i], today) /\ tasks[i].carryOver /\ ~tasks[i].repeating.enabled

\* what "return to today" sends on the day d: moveToToday's { carryOver: false }
\* and the Today button's { date: d }
ReturnToTodayBodies(d) ==
  { [NoBody EXCEPT !.has = {"carryOver"}, !.carryOver = FALSE],
    [NoBody EXCEPT !.has = {"date"}, !.date = d] }

\* C6: after return-to-today is applied to a carried-over task, the stored
\* task has date = today and carryOver = false, and the next GET /api/tasks
\* for today lists it in today and not in carryOver.
C6_ReturnToToday ==
  [][ \A id \in IdInputs, body \in ReturnToTodayBodies(today) :
        ( /\ HasId(tasks, id)
          /\ tasks[IndexOf(tasks, id)].carryOver
          /\ ~tasks[IndexOf(tasks, id)].completed
          /\ PatchTask(id, body) )
        => LET t == tasks'[IndexOf(tasks', id)]
               next == Buckets(Sweep(tasks', today), today)
           IN  /\ t.date = today
               /\ ~t.carryOver
               /\ InBucket(next.today, id)
               /\ ~InBucket(next.carryOver, id) ]_vars

\* C7: PATCH /api/tasks/:id for an id that matches no stored task answers 404
\* and changes no stored task; it answers 200 with the updated task only when
\* a task was found.
C7_PatchNotFound ==
  [][ (IsRequest /\ req'.route = "/api/tasks/[id]" /\ req'.method = "PATCH")
      => IF HasId(tasks, req'.id)
         THEN /\ resp'.status = 200
              /\ resp'.task = <<tasks'[IndexOf(tasks', req'.id)]>>
         ELSE /\ resp'.status = 404
              /\ tasks' = tasks ]_vars

\* C8: DELETE /api/tasks/:id answers 200 carrying the deleted task's id when
\* the task exists, removing exactly that task, and answers 404, removing
\* nothing, when no task has that id.
C8_DeleteAnswers ==
  [][ (IsRequest /\ req'.route = "/api/tasks/[id]" /\ req'.method = "DELETE")
      => IF HasId(tasks, req'.id)
         THEN /\ resp'.status = 200
              /\ resp'.id = req'.id
              /\ tasks' = SelectSeq(tasks, LAMBDA t : t._id # req'.id)
         ELSE /\ resp'.status = 404
              /\ tasks' = tasks ]_vars

PatchFields == {"completed", "carryOver", "date", "text", "description", "due"}

\* C9: PATCH /api/tasks/:id stores every one of completed, carryOver, date,
\* text, description and due that the body carries, whatever else the body
\* carries, and leaves the fields the body does not carry unchanged.
C9_PatchStoresFields ==
  [][ \A id \in IdInputs, body \in PatchBodies(today) :
        (HasId(tasks, id) /\ PatchTask(id, body))
        => LET old == tasks[IndexOf(tasks, id)]
               new == tasks'[IndexOf(tasks', id)]
           IN  \A f \in PatchFields :
                 new[f] = IF f \in body.has THEN body[f] ELSE old[f] ]_vars

\* C10: the today bucket of GET /api/tasks is in ascending order of due,
\* repeating tasks included.
C10_TodaySortedByDue ==
  GotBuckets =>
    \A i, j \in 1..Len(resp.today) :
      i < j => ~LexLess(resp.today[j].due, resp.today[i].due)


-----------------------------------------------------------------------------
(* The fallback resolver of /api/extracted *)

\* the last request was a PATCH or DELETE that went through the resolver
Resolved == xreq.method \in {"PATCH", "DELETE"} /\ trace.outcome # ""

Position(reason) == CHOOSE k \in 1..Len(Strategies) : Strategies[k] = reason

Contains(s, sub) ==
  \E i \in 1..(Len(s) - Len(sub) + 1) : SubSeq(s, i, i + Len(sub) - 1) = sub

\* r carries both halves of the de-duplication key
HasPair(r) == r._source_account # NoStr /\ r.source_email_ts # NoStr

\* the records whose (source account, timestamp) pair the candidate contains
PairRecords(store, candidate) ==
  {i \in 1..Len(store) :
     /\ HasPair(store[i])
     /\ Contains(candidate, store[i]._source_account)
     /\ Contains(candidate, store[i].source_email_ts)}

\* the queries the resolver issued follow the order of Strategies, and a
\* match carries the reason of the last query issued
StrategyOrderKept ==
  Resolved =>
    /\ \A i, j \in 1..Len(trace.issued) :
         i < j => Position(trace.issued[i]) < Position(trace.issued[j])
    /\ trace.outcome = "match" =>
         /\ trace.issued # <<>>
         /\ trace.reason = trace.issued[Len(trace.issued)]

\* C11: the resolver tries its strategies in the fixed order and returns the
\* first match, tagged with its strategy; when the candidate contains the
\* source account and the ISO timestamp of a stored record and no query
\* fails, the pair strategy returns such a record and the fuzzy-title query
\* is never issued.
C11_PairBeforeTitle ==
  [][\A id \in IdCandidates :
       (PatchExtracted(id, TRUE, {}) \/ DeleteExtracted(id, {}))
         /\ ~HasX(extracted, id)
         /\ PairRecords(extracted, id) # {}
       => /\ StrategyOrderKept'
          /\ trace'.reason = "by_account_and_ts"
          /\ \E i \in PairRecords(extracted, id) : trace'.task = <<extracted[i]>>
          /\ \A n \in 1..Len(trace'.issued) : trace'.issued[n] # "by_title"]_vars

\* C12: a failing query of any strategy is caught and counted as a
\* non-match, so PATCH and DELETE never answer 500 because a lookup strategy
\* failed.
C12_LookupFailureCaught ==
  [][\A id \in IdCandidates : \A fails \in FailSets :
       (PatchExtracted(id, TRUE, fails) \/ DeleteExtracted(id, fails))
         /\ fails \subseteq Range(Strategies)
       => xresp'.status # 500]_vars

\* no strategy's filter selects a record of the store for this candidate
\* (written from the candidate itself, not from the resolver)
NoStrategyMatches(store, candidate) ==
  LET c == Parsed(candidate)
  IN  \A i \in 1..Len(store) :
        /\ store[i]._id # candidate
        /\ c.ts = NoStr \/ store[i].source_email_ts # c.ts
        /\ c.email = NoStr \/ store[i]._source_account # c.email
        /\ Len(c.title) < 3 \/ ~TitleMatches(store[i].title, c.title)

C14_DeleteByComposedId ==
  [][\A id \in IdCandidates :
       LET hits == {i \in 1..Len(extracted) :
                      /\ HasPair(extracted[i])
                      /\ id = ComposedId(extracted[i]._source_account, <<"_">>,
                                         extracted[i].source_email_ts)}
       IN  DeleteExtracted(id, {}) /\ ~HasX(extracted, id) /\ hits # {}
           => /\ trace'.reason = "by_account_and_ts"
              /\ xresp'.status = 200
              /\ \E i \in hits : extracted' = Without(extracted, extracted[i]._id)]_vars

-----------------------------------------------------------------------------
(* Ingest *)

SamePair(r, s) ==
  r._source_account = s._source_account /\ r.source_email_ts = s.source_email_ts

\* no two records carry the same (source account, timestamp) pair
NoDupPairs(store) ==
  \A i, j \in 1..Len(store) :
    i # j /\ HasPair(store[i]) => ~SamePair(store[i], store[j])

\* the items of an ingest that are persisted
Persisting(body, failing) == (1..Len(ingestTasks(body))) \ failing

\* C15: ingest de-duplicates on (source account, timestamp): from a store
\* without two records of one pair, an ingest leads to a store without two
\* records of one pair, and an item whose pair is already stored updates
\* that record (same _id, the item's title) instead of adding one.
C15_IngestDeduplicates ==
  [][\A body \in IngestBodies : \A failing \in SUBSET (1..Len(ingestTasks(body))) :
       Ingest(body, failing) /\ NoDupPairs(extracted)
       => /\ NoDupPairs(extracted')
          /\ \A n \in Persisting(body, failing) :
               LET doc == IngestDoc(ingestTasks(body)[n])
               IN  \A i \in 1..Len(extracted) :
                     HasPair(doc) /\ SamePair(extracted[i], doc)
                     => \E j \in 1..Len(extracted') :
                          /\ extracted'[j]._id = extracted[i]._id
                          /\ SamePair(extracted'[j], doc)
                          /\ extracted'[j].title = doc.title]_vars

\* an ingest of two items that both succeeded over a store that already held
\* the pair of the second: the older record still comes first
C15_Witness ==
  /\ xreq.action = "ingest" /\ xresp.status = 201 /\ xresp.inserted = 2
  /\ Len(extracted) = 2
  /\ extracted[1]._source_account = AcctB
  /\ NoDupPairs(extracted)

C17_AccountsMapping ==
  [][\A body \in IngestBodies :
       Ingest(body, {}) /\ body.hasAccounts /\ ~body.hasTasks
       => \A a \in 1..Len(body.accounts) :
            LET email == body.accounts[a].email
                tarr == body.accounts[a].tasks
            IN  /\ \A n \in 1..Len(tarr) :
                     tarr[n]._source_account = NoStr
                     => \E j \in 1..Len(extracted') :
                          /\ extracted'[j]._source_account = email
                          /\ extracted'[j].source_email_ts = tarr[n].source_email_ts
                          /\ extracted'[j].title = tarr[n].title
                /\ Len(body.accounts) = 1 /\ Len(tarr) = 1
                     /\ tarr[1]._source_account = NoStr
                     /\ tarr[1].source_email_ts = NoStr
                   => /\ Len(extracted') = Len(extracted) + 1
                      /\ extracted'[Len(extracted')]._source_account = email]_vars

\* the record of {accounts: {"a@x.c": [{title: "Call"}]}}
C17_Witness ==
  /\ xreq.action = "ingest" /\ xresp.status = 201
  /\ \E j \in 1..Len(extracted) :
       /\ extracted[j]._source_account = AcctA
       /\ extracted[j].source_email_ts = NoStr
       /\ extracted[j].title = TitleCall

-----------------------------------------------------------------------------
(* Validation, creation, tasks without a date *)

\* C18: a request that lacks a required field is answered 400 and changes no
\* stored record: POST /api/tasks without text or without date, POST
\* /api/extracted without title, PATCH and DELETE /api/extracted without id.
C18_MissingFieldIs400 ==
  [][/\ \A body \in PostBodies :
          (body.text = "" \/ body.date = NoDate)
            /\ (PostTask(body) \/ PostTaskInvalid(body))
          => resp'.status = 400 /\ tasks' = tasks /\ extracted' = extracted
     /\ \A body \in PostExtractedBodies :
          body.title = NoStr /\ (PostExtracted(body, FALSE) \/ PostExtractedInvalid(body))
          => xresp'.status = 400 /\ tasks' = tasks /\ extracted' = extracted
     /\ (PatchExtracted(NoStr, TRUE, {}) \/ DeleteExtracted(NoStr, {}))
          => xresp'.status = 400 /\ tasks' = tasks /\ extracted' = extracted]_vars

\* both routes answered 400 last, over collections that hold records
C18_Witness ==
  /\ req.method = "POST" /\ resp.status = 400 /\ tasks # <<>>
  /\ xreq.method = "DELETE" /\ xresp.status = 400 /\ extracted # <<>>

\* C19: a task created by POST /api/tasks starts with completed = false and
\* carryOver = false whatever the body carries, and a task created with
\* date = today is listed in the today bucket, and in no other, by the next
\* GET /api/tasks for today.
C19_CreatedInToday ==
  [][/\ (req'.method = "POST" /\ tasks' # tasks)
          => LET t == tasks'[Len(tasks')]
             IN  /\ Len(tasks') = Len(tasks) + 1
                 /\ resp'.status = 201 /\ resp'.task = <<t>>
                 /\ ~t.completed /\ ~t.carryOver
     /\ (req.method = "POST" /\ resp.status = 201
           /\ req'.method = "GET" /\ resp'.status = 200
           /\ req'.selectedDate = req'.todayStr
           /\ resp.task[1].date = req'.todayStr)
          => /\ InBucket(resp'.today, resp.task[1]._id)
             /\ ~InBucket(resp'.carryOver, resp.task[1]._id)
             /\ ~InBucket(resp'.completed, resp.task[1]._id)]_vars

\* the newest task, dated today, as the GET for today lists it
C19_Witness ==
  /\ GotTodayBuckets
  /\ \E i \in 1..Len(tasks) :
       /\ tasks[i]._id = nextId - 1
       /\ tasks[i].date = req.todayStr
       /\ ~tasks[i].completed /\ ~tasks[i].carryOver
       /\ InBucket(resp.today, tasks[i]._id)
       /\ ~InBucket(resp.carryOver, tasks[i]._id)
       /\ ~InBucket(resp.completed, tasks[i]._id)

\* C20: an incomplete task that is not carried over and has no date is
\* treated as dated today: after a GET /api/tasks for today it is in the
\* today bucket of the response and in the today list the client builds
\* from the response.
C20_UndatedInToday ==
  GotTodayBuckets =>
    \A i \in 1..Len(tasks) :
      ~tasks[i].completed /\ ~tasks[i].carryOver /\ tasks[i].date = NoDate
      => /\ InBucket(resp.today, tasks[i]._id)
         /\ InBucket(todayTasks(ClientTasks(resp, req.todayStr), req.todayStr),
                     tasks[i]._id)
-----------------------------------------------------------------------------
(* Claims on the sweep and the today list *)

\* C21: GET /api/tasks without a date parameter is equivalent to GET
\* /api/tasks?date=<today>: from every stored state both perform the same
\* carry-over sweep (same resulting store) and return the same three buckets.
C21_DefaultDateIsToday ==
  LET bare == GetOutcome(NoDate)
      dated == GetOutcome(today)
  IN  /\ bare.tasks = dated.tasks
      /\ bare.today = dated.today
      /\ bare.carryOver = dated.carryOver
      /\ bare.completed = dated.completed
      /\ (GotBuckets /\ req.date = NoDate /\ req.todayStr = today)
           => (tasks = dated.tasks /\ resp.today = dated.today
                 /\ resp.carryOver = dated.carryOver
                 /\ resp.completed = dated.completed)

\* C21 witness: on the second day a GET without a date has swept an overdue
\* task and listed it as carried over, next to a task listed in today
C21_Witness ==
  /\ GotBuckets
  /\ req.date = NoDate
  /\ today = FormatDay(LastDay)
  /\ req.todayStr = today
  /\ Len(resp.carryOver) = 1
  /\ Len(resp.today) = 1
  /\ \E i \in 1..Len(tasks) : tasks[i].carryOver /\ DateLt(tasks[i].date, today)
\* C25: the carry-over sweep of GET /api/tasks changes only the carryOver
\* field, only from false to true, and only on tasks with completed = false
\* and a date strictly before today; it changes no completed task, no task
\* dated today or later and no other field, and it creates and deletes no task.
C25_SweepFrame ==
  [][ (IsRequest /\ req'.route = "/api/tasks" /\ req'.method = "GET")
      => /\ Len(tasks') = Len(tasks)
         /\ \A i \in 1..Len(tasks) :
              \/ tasks'[i] = tasks[i]
              \/ /\ tasks'[i] = [tasks[i] EXCEPT !.carryOver = TRUE]
                 /\ ~tasks[i].carryOver
                 /\ ~tasks[i].completed
                 /\ tasks[i].date # NoDate
                 /\ LexLess(tasks[i].date, today) ]_vars

\* C25 witness: a today view after which one overdue task is flagged while a
\* completed overdue task keeps carryOver = false
C25_Witness ==
  /\ GotTodayBuckets
  /\ req.todayStr = today
  /\ \E i, j \in 1..Len(tasks) :
       /\ ~tasks[i].completed /\ tasks[i].carryOver /\ DateLt(tasks[i].date, today)
       /\ tasks[j].completed /\ ~tasks[j].carryOver /\ DateLt(tasks[j].date, today)
\* C26: the today list of a GET /api/tasks response never holds the same task
\* twice; a repeating task that applies on the selected date and is also dated
\* the selected date with carryOver = false is listed exactly once.
C26_TodayListsOnce ==
  GotBuckets =>
    /\ \A i, j \in 1..Len(resp.today) :
         resp.today[i]._id = resp.today[j]._id => i = j
    /\ \A k \in 1..Len(tasks) :
         (/\ TodayFilter(tasks[k], req.selectedDate)
          /\ repeatingAppliesOnDate(tasks[k].repeating, req.selectedDate))
         => Cardinality({i \in 1..Len(resp.today) :
                           resp.today[i]._id = tasks[k]._id}) = 1

\* C26 witness: the today list holds a daily task that is dated the selected
\* date and not carried over, next to a plain task
C26_Witness ==
  /\ GotBuckets
  /\ Len(resp.today) = 2
  /\ \E k \in 1..Len(tasks) :
       /\ TodayFilter(tasks[k], req.selectedDate)
       /\ repeatingAppliesOnDate(tasks[k].repeating, req.selectedDate)
       /\ InBucket(resp.today, tasks[k]._id)
\* C22: the carry-over sweep converges under concurrency.  For every
\* interleaving of concurrent GET /api/tasks requests for today, with no other
\* writer, once all of them have finished the store equals the store a single
\* such GET produces: every incomplete task dated before today has
\* carryOver = true and no other field of any task differs.
C22_SweepConverges ==
  (Quiet /\ GotTodayBuckets /\ req.todayStr = today) =>
    /\ tasks = Sweep(store0, today)
    /\ Len(tasks) = Len(store0)
    /\ \A i \in 1..Len(tasks) :
         /\ Overdue(tasks[i], today) => tasks[i].carryOver
         /\ [tasks[i] EXCEPT !.carryOver = FALSE]
              = [store0[i] EXCEPT !.carryOver = FALSE]

\* C22 witness: two requests for today ran together over two overdue tasks
\* and each one's updateMany flagged one of them
C22_Witness ==
  /\ Quiet
  /\ GotTodayBuckets
  /\ req.todayStr = today
  /\ Len(store0) = 2
  /\ \A i \in 1..Len(store0) : SweepFilter(store0[i], today)
  /\ sweepers = Fetchers
  /\ \A i \in 1..Len(tasks) : tasks[i].carryOver
-----------------------------------------------------------------------------
(* The calendar flag *)

\* C23: an extracted task with addedToCalendar = true keeps that value until
\* it is deleted or explicitly patched; re-ingesting a task with the same
\* (source account, timestamp) whose payload carries no addedToCalendar does
\* not reset the stored value to false.
C23_CalendarFlagKept ==
  [][ xreq'.method # "PATCH" =>
        \A i \in 1..Len(extracted) :
          extracted[i].addedToCalendar =>
            \A j \in 1..Len(extracted') :
              extracted'[j]._id = extracted[i]._id => extracted'[j].addedToCalendar
    ]_vars
-----------------------------------------------------------------------------
(* The composed key *)

\* C24: when the client deletes an extracted task r through the key
\* "<source account>-<timestamp>-<title>" it composes for a task without _id,
\* the record DELETE /api/extracted removes is r itself and no other, also
\* when other stored records share r's source account or r's timestamp.
C24_ComposedKeyDeletesItsTask ==
  [][ \A i \in 1..Len(extracted) :
        (xreq'.method = "DELETE" /\ xreq'.id = composedKey(extracted[i]))
        => \E j \in 1..Len(extracted) :
             /\ composedKey(extracted[j]) = composedKey(extracted[i])
             /\ extracted' = Without(extracted, extracted[j]._id) ]_vars
-----------------------------------------------------------------------------
(* Answers of /api/tasks/[id] *)

\* C27: every request reaching the /api/tasks/[id] handler is eventually
\* answered with exactly one response, for every HTTP method (a method other
\* than PATCH and DELETE is answered 405) and whether or not the id names a
\* stored task.
C27_AlwaysAnswered ==
  (idreq.pc = "handling") ~>
    (/\ idreq.pc = "answered"
     /\ idreq.answers = 1
     /\ (idreq.method \notin {"PATCH", "DELETE"} => resp.status = 405))
-----------------------------------------------------------------------------
(* The authorisation queue *)

\* authorisations under way: start_auth requests in flight and the visit to
\* the provider, up to the effect that handles the return
InProgress == Cardinality(startAuth) + (IF href # AtApp THEN 1 ELSE 0)

\* C28: after Connect with the emails e1..en, if every authorisation succeeds
\* and the browser is redirected back with ?auth=success&email=ei, start_auth
\* is eventually requested for every one of e1..en, in list order, with at
\* most one authorisation in progress at a time, and the queue ends empty.
C28_QueueIsWorkedOff ==
  /\ [](InProgress <= 1)
  /\ \A l \in DistinctLists :
       (authLog.connected = l /\ ~authLog.failed)
         ~> (\/ authLog.failed
             \/ /\ authLog.requested = l
                /\ authQueue = <<>>
                /\ InProgress = 0)
-----------------------------------------------------------------------------
(* TodoList: the optimistic toggle and the debounced save *)

\* C29: when the PATCH issued by toggleComplete fails, the list afterwards
\* equals the list it would hold had the toggle never been invoked: the task
\* shows its previous completed value and every other local change made to
\* any task while the PATCH was in flight is preserved.
C29_RevertKeepsLocalChanges ==
  [][ \A k \in 1..Len(toggles) :
        ToggleSettles(k, FALSE) =>
          /\ Len(clientTasks') = Len(clientTasks)
          /\ \A j \in 1..Len(clientTasks) :
               clientTasks'[j] = IF clientTasks[j]._id = toggles[k].id
                          THEN [clientTasks[j] EXCEPT !.completed = toggles[k].task.completed]
                          ELSE clientTasks[j] ]_vars

\* C30: every field edit made through updateTask is eventually sent to the
\* server in a PATCH carrying the last value given to that field, unless a
\* later edit of the same field of the same task supersedes it; an edit of
\* one field is not dropped because another field of the same task was edited
\* within the debounce window.
C30_EveryEditIsSaved ==
  \A id \in IdInputs, field \in EditFields :
    (<<id, field>> \in unsent) ~> (<<id, field>> \notin unsent)
====
